---- MODULE Spec2Model ----
(***************************************************************************)
(* Face recognition API: the acquisition pipeline                          *)
(*   internal/services/image_downloader.go  (Image Acquirer)               *)
(*   internal/services/face_detector.go     (Detection, Selfie scoring)    *)
(*   internal/services/image_processor.go   (Annotation renderer)          *)
(*   internal/handlers (unnamed/part_001)   (HTTP handlers)                *)
(*   internal/middleware, cmd/api/main.go  (router, recovery, rate limit) *)
(* Strings are sequences of one-character strings, so that ToLower,        *)
(* Contains, HasPrefix and Split act on them as the Go functions do.       *)
(***************************************************************************)
EXTENDS Integers, Sequences, FiniteSets, TLC

VARIABLES
    vurl,      \* SpecURL: the raw URL handed to validateURL and DownloadImage
    vres,      \* SpecURL: [done, verdict, dl], what the two calls returned
    aurl,      \* SpecAcquire: the raw URL handed to DownloadImage
    aworld,    \* SpecAcquire: what the remote side answers
    actx,      \* SpecAcquire: where the request context ends, if at all
    ares,      \* SpecAcquire: [done, dl], what DownloadImage returned
    inp,       \* Spec: per request, which request of Scenarios it is
    pc,        \* Spec: per request, where its handler is
    ctx,       \* Spec: per request, "live" or where its context ended
    loc,       \* Spec: per request, the handler's locals (req, img, metadata, faces, err)
    stages,    \* Spec: per request, the pipeline stages called so far
    responses, \* Spec: per request, the responses written
    classifier, \* Spec: the classifier handle shared by all requests
    arg,       \* SpecDetect, SpecScore, SpecRender: the arguments of the call
    ret,       \* SpecDetect, SpecScore, SpecRender: what the call returned
    flight,    \* SpecServe: per connection, the request the router is serving
    answered,  \* SpecServe: what each connection's client received, in order
    spent,     \* SpecServe: per client key, the requests sent since the last refill
    mu,        \* SpecLimiter: the goroutines holding rl.mu
    limiters,  \* SpecLimiter: rl.limiters, per key its limiter or 0
    made,      \* SpecLimiter: the limiters created, in order: [key, tokens]
    proc       \* SpecLimiter: per goroutine, where it is in Middleware

urlVars == <<vurl, vres>>
acquireVars == <<aurl, aworld, actx, ares>>
handlerVars == <<inp, pc, ctx, loc, stages, responses, classifier>>
unitVars == <<arg, ret>>
serveVars == <<flight, answered, spent>>
limiterVars == <<mu, limiters, made, proc>>
vars == <<vurl, vres, aurl, aworld, actx, ares,
          inp, pc, ctx, loc, stages, responses, classifier,
          arg, ret, flight, answered, spent, mu, limiters, made, proc>>

----------------------------------------------------------------------------
(* Characters and the string functions of package strings                  *)

UpperSeq == <<"A","B","C","D","E","F","G","H","I","J","K","L","M",
              "N","O","P","Q","R","S","T","U","V","W","X","Y","Z">>
LowerSeq == <<"a","b","c","d","e","f","g","h","i","j","k","l","m",
              "n","o","p","q","r","s","t","u","v","w","x","y","z">>
Digits == {"0","1","2","3","4","5","6","7","8","9"}

Range(s) == { s[i] : i \in DOMAIN s }

UpperLetters == Range(UpperSeq)
LowerLetters == Range(LowerSeq)
LowerOf == [c \in UpperLetters |->
               LowerSeq[CHOOSE i \in DOMAIN UpperSeq : UpperSeq[i] = c]]
UpperOf == [c \in LowerLetters |->
               UpperSeq[CHOOSE i \in DOMAIN LowerSeq : LowerSeq[i] = c]]

IsUpper(c) == c \in UpperLetters
IsLetter(c) == c \in UpperLetters \/ c \in LowerLetters
IsDigit(c) == c \in Digits

ToLowerCh(c) == IF IsUpper(c) THEN LowerOf[c] ELSE c

\* strings.ToLower
ToLower(s) == [i \in DOMAIN s |-> ToLowerCh(s[i])]

\* strings.HasPrefix
HasPrefix(s, p) == Len(s) >= Len(p) /\ SubSeq(s, 1, Len(p)) = p

\* strings.Contains
Contains(s, sub) ==
    \E i \in 1..(Len(s) - Len(sub) + 1) : SubSeq(s, i, i + Len(sub) - 1) = sub

\* strings.Index of a one-character string, 1-based; 0 when absent
IndexOf(s, c) ==
    IF c \in Range(s) THEN CHOOSE i \in DOMAIN s : s[i] = c /\ \A j \in 1..(i-1) : s[j] # c
    ELSE 0

\* strings.LastIndex of a one-character string, 1-based; 0 when absent
LastIndexOf(s, c) ==
    IF c \in Range(s) THEN CHOOSE i \in DOMAIN s : s[i] = c /\ \A j \in (i+1)..Len(s) : s[j] # c
    ELSE 0

\* the suffix of s from 1-based index i on (s[i-1:] in Go)
From(s, i) == SubSeq(s, i, Len(s))

----------------------------------------------------------------------------
(* net/url.Parse, as validateURL calls it, for URLs without query,         *)
(* fragment or percent-escapes                                             *)

SchemeCharOK(raw, i) ==
    \/ IsLetter(raw[i])
    \/ i > 1 /\ (IsDigit(raw[i]) \/ raw[i] \in {"+", "-", "."})

\* getScheme: [err, scheme, rest]
getScheme(raw) ==
    LET stops == { i \in DOMAIN raw : ~SchemeCharOK(raw, i) }
    IN  IF stops = {} THEN [err |-> FALSE, scheme |-> <<>>, rest |-> raw]
        ELSE LET k == CHOOSE i \in stops : \A j \in stops : i <= j
             IN  IF raw[k] = ":"
                 THEN IF k = 1
                      THEN [err |-> TRUE, scheme |-> <<>>, rest |-> <<>>]
                      ELSE [err |-> FALSE, scheme |-> SubSeq(raw, 1, k - 1),
                            rest |-> From(raw, k + 1)]
                 ELSE [err |-> FALSE, scheme |-> <<>>, rest |-> raw]

\* validOptionalPort
validOptionalPort(port) ==
    \/ port = <<>>
    \/ port[1] = ":" /\ \A i \in 2..Len(port) : IsDigit(port[i])

\* the bytes parseHost's unescape accepts unescaped in a host
HostCharOK(c) ==
    IsLetter(c) \/ IsDigit(c) \/ c \in {"-", "_", ".", "~", ":", "[", "]", "+"}

\* parseHost: [err, host]
parseHost(host) ==
    LET portOK ==
            IF HasPrefix(host, <<"[">>)
            THEN LET i == LastIndexOf(host, "]")
                 IN  i # 0 /\ validOptionalPort(From(host, i + 1))
            ELSE LET i == LastIndexOf(host, ":")
                 IN  i = 0 \/ validOptionalPort(From(host, i))
    IN  IF portOK /\ \A i \in DOMAIN host : HostCharOK(host[i])
        THEN [err |-> FALSE, host |-> host]
        ELSE [err |-> TRUE, host |-> <<>>]

\* parseAuthority: the host is what follows the last "@"
parseAuthority(authority) ==
    parseHost(From(authority, LastIndexOf(authority, "@") + 1))

\* url.Parse: [err, Scheme, Host]
Parse(raw) ==
    LET failed == [err |-> TRUE, Scheme |-> <<>>, Host |-> <<>>]
        gs == getScheme(raw)
        scheme == ToLower(gs.scheme)
        rest == gs.rest
    IN  IF gs.err THEN failed
        ELSE IF ~HasPrefix(rest, <<"/">>) /\ scheme # <<>>
             THEN [err |-> FALSE, Scheme |-> scheme, Host |-> <<>>]   \* opaque
        ELSE IF ~HasPrefix(rest, <<"/">>)
                /\ LET cut == IndexOf(rest, "/")
                       segment == IF cut = 0 THEN rest ELSE SubSeq(rest, 1, cut - 1)
                   IN  ":" \in Range(segment)
             THEN failed
        ELSE IF HasPrefix(rest, <<"/", "/">>)
                /\ (scheme # <<>> \/ ~HasPrefix(rest, <<"/", "/", "/">>))
             THEN LET after == From(rest, 3)
                      cut == IndexOf(after, "/")
                      authority == IF cut = 0 THEN after ELSE SubSeq(after, 1, cut - 1)
                      ph == parseAuthority(authority)
                  IN  IF ph.err THEN failed
                      ELSE [err |-> FALSE, Scheme |-> scheme, Host |-> ph.host]
        ELSE [err |-> FALSE, Scheme |-> scheme, Host |-> <<>>]

----------------------------------------------------------------------------
(* Words                                                                   *)

sHTTP == <<"h","t","t","p">>
sHTTPS == <<"h","t","t","p","s">>
sHTTPUpper == <<"H","T","T","P">>
sFTP == <<"f","t","p">>
sLocalhost == <<"l","o","c","a","l","h","o","s","t">>
sLoopback == <<"1","2","7",".","0",".","0",".","1">>
sAnyAddr == <<"0",".","0",".","0",".","0">>
sLoopback6 == <<":",":","1">>
sTen == <<"1","0",".">>
s192168 == <<"1","9","2",".","1","6","8",".">>
s172 == <<"1","7","2",".">>
sExample == <<"e","x","a","m","p","l","e",".","c","o","m">>
sCdn == <<"c","d","n",".","e","x","a","m","p","l","e",".","o","r","g">>

----------------------------------------------------------------------------
(* ImageDownloader.isPrivateIP and ImageDownloader.validateURL             *)

privateHosts == <<sLocalhost, sLoopback, sAnyAddr, sLoopback6>>

\* a plausible slip: the host is matched without folding its case
isPrivateIPCaseSensitive(host) ==
    \/ \E i \in DOMAIN privateHosts : Contains(host, privateHosts[i])
    \/ HasPrefix(host, sTen)
    \/ HasPrefix(host, s192168)
    \/ HasPrefix(host, s172)

isPrivateIP(host) ==
    LET h == ToLower(host)
    IN  \/ \E i \in DOMAIN privateHosts : Contains(h, privateHosts[i])
        \/ HasPrefix(h, sTen)
        \/ HasPrefix(h, s192168)
        \/ HasPrefix(h, s172)

\* validateURL: "" for nil, otherwise the message of the error
validateURL(imageURL) ==
    LET parsedURL == Parse(imageURL)
    IN  IF imageURL = <<>> THEN "URL cannot be empty"
        ELSE IF parsedURL.err THEN "invalid URL format"
        ELSE IF parsedURL.Scheme # sHTTP /\ parsedURL.Scheme # sHTTPS
             THEN "unsupported URL scheme"
        ELSE IF parsedURL.Host = <<>> THEN "missing host in URL"
        ELSE IF isPrivateIP(parsedURL.Host)
             THEN "access to private IP ranges is not allowed"
        ELSE ""

----------------------------------------------------------------------------
(* Limits (config.Load defaults)                                           *)

MaxImageSize == 5242880
MaxWidth == 2000
MaxHeight == 2000
StatusOK == 200

----------------------------------------------------------------------------
(* ImageDownloader.isValidImageType                                        *)

sImageJpeg == <<"i","m","a","g","e","/","j","p","e","g">>
sImageJpg == <<"i","m","a","g","e","/","j","p","g">>
sImagePng == <<"i","m","a","g","e","/","p","n","g">>
sImageGif == <<"i","m","a","g","e","/","g","i","f">>
sImageWebp == <<"i","m","a","g","e","/","w","e","b","p">>
sImagePngUpperParam == <<"I","M","A","G","E","/","P","N","G",";","q","=","1">>
sTextHtml == <<"t","e","x","t","/","h","t","m","l">>
sJpeg == <<"j","p","e","g">>
sPng == <<"p","n","g">>

validTypes == <<sImageJpeg, sImageJpg, sImagePng, sImageGif, sImageWebp>>

\* strings.Split(s, ";")[0]
BeforeSemicolon(s) ==
    LET i == IndexOf(s, ";") IN IF i = 0 THEN s ELSE SubSeq(s, 1, i - 1)

isValidImageType(contentType) ==
    LET ct == ToLower(BeforeSemicolon(contentType))
    IN  \E i \in DOMAIN validTypes : ct = validTypes[i]

\* strings.ToUpper
ToUpperCh(c) == IF c \in LowerLetters THEN UpperOf[c] ELSE c
ToUpper(s) == [i \in DOMAIN s |-> ToUpperCh(s[i])]

----------------------------------------------------------------------------
(* http.Client.Do with the client NewImageDownloader builds: no            *)
(* CheckRedirect is set, so the client follows each redirect the remote    *)
(* side answers (fewer than net/http's limit of ten here) and returns the  *)
(* last response. world.redirects are the hosts of the Location headers.   *)
(* ctxAt is where the request context ends: "none", "fetch" (Do fails) or  *)
(* "body" (reading the body, hence decoding, fails).                       *)

NilImage == [id |-> 0, w |-> 0, h |-> 0]
NilMetadata == [Width |-> 0, Height |-> 0, Format |-> <<>>, SizeBytes |-> 0, URL |-> <<>>]

ClientDo(ctxAt, host, world) ==
    IF ctxAt = "fetch" \/ world.netFail
    THEN [err |-> TRUE, fetched |-> <<host>>, StatusCode |-> 0]
    ELSE [err |-> FALSE, fetched |-> <<host>> \o world.redirects,
          StatusCode |-> world.status]

----------------------------------------------------------------------------
(* ImageDownloader.DownloadImage: [err, img, meta, fetched, decoded, read] *)
(* err is "" for nil, otherwise the kind of the failure; fetched lists the *)
(* hosts the client sent a request to; decoded tells whether image.Decode  *)
(* was called; read is the number of body bytes a successful image.Decode  *)
(* consumed. The body of a response that declares a content length ends    *)
(* for the reader at that length; an undeclared one (-1) is read as sent.  *)

Failure(kind, fetched, decoded) ==
    [err |-> kind, img |-> NilImage, meta |-> NilMetadata,
     fetched |-> fetched, decoded |-> decoded, read |-> 0]

\* what resp.Body yields of the bytes sent
BodyRead(contentLength, bytes) ==
    IF contentLength >= 0 /\ contentLength < bytes THEN contentLength ELSE bytes

\* a plausible variant: every 2xx status passes
StatusRefusedNon2xx(code) == code < 200 \/ code > 299

\* the status check of DownloadImage: TRUE when the response is refused
StatusRefused(code) == code # StatusOK

\* a plausible slip: a length equal to the cap is refused too
LengthRefusedAtCap(contentLength) == contentLength >= MaxImageSize

\* the content-length check of DownloadImage
LengthRefused(contentLength) == contentLength > MaxImageSize

\* the dimension check of DownloadImage
DimensionsRefused(width, height) == width > MaxWidth \/ height > MaxHeight

DownloadImage(ctxAt, imageURL, world) ==
    IF validateURL(imageURL) # "" THEN Failure("InvalidURL", <<>>, FALSE)
    ELSE
    LET resp == ClientDo(ctxAt, Parse(imageURL).Host, world)
    IN  IF resp.err THEN Failure("DownloadFailed", resp.fetched, FALSE)
        ELSE IF StatusRefused(resp.StatusCode)
             THEN Failure("DownloadFailed", resp.fetched, FALSE)
        ELSE IF ~isValidImageType(world.contentType)
             THEN Failure("UnsupportedFormat", resp.fetched, FALSE)
        ELSE IF LengthRefused(world.contentLength)
             THEN Failure("TooLarge", resp.fetched, FALSE)
        ELSE IF \/ ctxAt = "body" \/ ~world.body.decodable
                \/ BodyRead(world.contentLength, world.body.bytes) < world.body.bytes
             THEN Failure("DecodeFailed", resp.fetched, TRUE)
        ELSE IF DimensionsRefused(world.body.w, world.body.h)
             THEN Failure("TooLarge", resp.fetched, TRUE)
        ELSE [err |-> "",
              img |-> [id |-> world.body.id, w |-> world.body.w, h |-> world.body.h],
              meta |-> [Width |-> world.body.w, Height |-> world.body.h,
                        Format |-> ToUpper(world.body.format),
                        SizeBytes |-> world.contentLength, URL |-> imageURL],
              fetched |-> resp.fetched, decoded |-> TRUE,
              read |-> BodyRead(world.contentLength, world.body.bytes)]

----------------------------------------------------------------------------
(* The remote side                                                         *)

MaxHops == 2

sLocalhostMixed == <<"L","o","c","a","l","H","o","s","t">>
sLocalhostUpperSub == <<"m","y","-","L","O","C","A","L","H","O","S","T",".","e","v","i","l",".","i","o">>
sLoopback6Host == <<"[",":",":","1","]">>
sTenHost == <<"1","0",".","0",".","0",".","5">>
s192168Host == <<"1","9","2",".","1","6","8",".","1",".","1">>
s172Host == <<"1","7","2",".","1","6",".","0",".","1">>
s172Name == <<"1","7","2",".","e","x","a","m","p","l","e",".","c","o","m">>
s110Host == <<"1","1","0",".","0",".","0",".","1">>
s192169Host == <<"1","9","2",".","1","6","9",".","1",".","1">>
sSpaceHost == <<"e","x","a"," ","m","p","l","e">>
sPort == <<":","8","0","8","0">>
sBadPort == <<":","b","a","d">>
sUser == <<"u","s","e","r","@">>
sPath == <<"/","a",".","j","p","g">>
sSchemeSep == <<":","/","/">>

OkBody == [decodable |-> TRUE, format |-> sJpeg, w |-> 640, h |-> 480, id |-> 1,
           bytes |-> 1024]
BadBody == [decodable |-> FALSE, format |-> <<>>, w |-> 0, h |-> 0, id |-> 0,
            bytes |-> 1024]

OkWorld == [netFail |-> FALSE, redirects |-> <<>>, status |-> StatusOK,
            contentType |-> sImageJpeg, contentLength |-> 1024, body |-> OkBody]
NetFailWorld == [OkWorld EXCEPT !.netFail = TRUE]

RedirectHosts == {sCdn, sLoopback}
RedirectChains == UNION { [1..n -> RedirectHosts] : n \in 0..MaxHops }
Statuses == {200, 201, 206, 299, 404}
ContentTypes == {sImageJpeg, sImagePngUpperParam, sTextHtml}
ContentLengths == {-1, MaxImageSize, MaxImageSize + 1}
Widths == {640, MaxWidth, MaxWidth + 1}
Heights == {480, MaxHeight, MaxHeight + 1}
Bodies == {BadBody} \cup
          { [OkBody EXCEPT !.w = w, !.h = h] : w \in Widths, h \in Heights }

Worlds == {NetFailWorld} \cup
          [netFail : {FALSE}, redirects : RedirectChains, status : Statuses,
           contentType : ContentTypes, contentLength : ContentLengths, body : Bodies]

CtxEnds == {"none", "fetch", "body"}

----------------------------------------------------------------------------
(* The requests of Spec                                                    *)

NumRequests == 2
Requests == 1..NumRequests

\* what RunCascade and ClusterDetections return for the two image contents
Cascade ==
    [id \in {1, 2} |->
        IF id = 1
        THEN <<[Row |-> 9, Col |-> 12, Scale |-> 8, Q |-> 20]>>
        ELSE <<[Row |-> 4, Col |-> 5, Scale |-> 7, Q |-> 15],
               [Row |-> 10, Col |-> 17, Scale |-> 6, Q |-> 12],
               [Row |-> 12, Col |-> 3, Scale |-> 5, Q |-> 11]>>]

Body1 == [OkBody EXCEPT !.w = 24, !.h = 18]
Body2 == [OkBody EXCEPT !.format = sPng, !.w = 20, !.h = 16, !.id = 2]
World1 == [OkWorld EXCEPT !.body = Body1]
World2 == [OkWorld EXCEPT !.body = Body2, !.contentType = sImagePngUpperParam]

sImgHost == <<"i", ".", "i", "o">>
sGoodURL == sHTTPS \o sSchemeSep \o sImgHost
sPrivateURL == sHTTP \o sSchemeSep \o sTenHost

Scenario(endpoint, jsonOK, url, world) ==
    [endpoint |-> endpoint, jsonOK |-> jsonOK, ImageURL |-> url,
     MinFaces |-> 0, MaxFaces |-> 0, CircleColor |-> "", LineWidth |-> 0,
     world |-> world]

\* the requests a client sends; inp[r] is the index of the one request r is
Scenarios ==
    << [Scenario("validate", TRUE, sGoodURL, World1) EXCEPT !.MaxFaces = 2],
       [Scenario("detect-visual", TRUE, sGoodURL, World2)
           EXCEPT !.CircleColor = "blue", !.LineWidth = 2],
       Scenario("detect", TRUE, sGoodURL, World1),
       Scenario("validate", TRUE, sPrivateURL, World1),
       Scenario("detect-visual", TRUE, <<>>, World1),
       Scenario("detect", FALSE, <<>>, World1) >>

In(r) == Scenarios[inp[r]]

NoLocals == [MinFaces |-> 0, MaxFaces |-> 0, CircleColor |-> "", LineWidth |-> 0,
             img |-> NilImage, metadata |-> NilMetadata, faces |-> <<>>, err |-> ""]

\* no call of SpecDetect, SpecScore or SpecRender, no connection of SpecServe
NoCall == [fn |-> "none"]
UnitIdle == arg = NoCall /\ ret = NoCall
ServeIdle == flight = <<>> /\ answered = <<>> /\ spent = <<>>
LimiterIdle == mu = {} /\ limiters = <<>> /\ made = <<>> /\ proc = <<>>

HandlersIdle ==
    /\ inp = [r \in Requests |-> 1]
    /\ pc = [r \in Requests |-> "done"]
    /\ ctx = [r \in Requests |-> "live"]
    /\ loc = [r \in Requests |-> NoLocals]
    /\ stages = [r \in Requests |-> <<>>]
    /\ responses = [r \in Requests |-> <<>>]
    /\ classifier = Cascade

----------------------------------------------------------------------------
(* SpecURL: validateURL and DownloadImage on one URL of URLInputs, the     *)
(* remote side answering a plain image                                     *)

URLSchemes == {sHTTP, sHTTPS, sHTTPUpper, sFTP, <<>>}
URLSeps == {sSchemeSep, <<":">>, <<"/", "/">>, <<>>}
URLUsers == {<<>>, sUser}
URLHosts == {sExample, sLocalhost, sLocalhostMixed, sLocalhostUpperSub, sLoopback,
             sAnyAddr, sLoopback6Host, sTenHost, s192168Host, s172Host, s172Name,
             s110Host, s192169Host, sSpaceHost, <<>>}
URLPorts == {<<>>, sPort, sBadPort}
URLPaths == {<<>>, sPath}

URLInputs == { sc \o sep \o us \o h \o po \o pa :
               sc \in URLSchemes, sep \in URLSeps, us \in URLUsers,
               h \in URLHosts, po \in URLPorts, pa \in URLPaths }

\* the values of the variables a specification does not use
PendingV == [done |-> FALSE]
PendingA == [done |-> FALSE]
NoWorld == [netFail |-> TRUE]

InitURL ==
    /\ vurl \in URLInputs
    /\ vres = PendingV
    /\ aurl = <<>> /\ aworld = NoWorld /\ actx = "none" /\ ares = PendingA
    /\ LimiterIdle /\ HandlersIdle /\ UnitIdle /\ ServeIdle

ValidateCall ==
    /\ ~vres.done
    /\ vres' = [done |-> TRUE, verdict |-> validateURL(vurl),
                dl |-> DownloadImage("none", vurl, OkWorld)]
    /\ UNCHANGED <<limiterVars, vurl, acquireVars, handlerVars, unitVars, serveVars>>

NextURL == ValidateCall

SpecURL == InitURL /\ [][NextURL]_vars

----------------------------------------------------------------------------
(* SpecAcquire: one call of DownloadImage against every remote side of     *)
(* Worlds                                                                  *)

AcquireURLs == { sHTTPS \o sSchemeSep \o sExample \o sPort \o sPath,
                 sHTTP \o sSchemeSep \o sLocalhostMixed \o sPath }

InitAcquire ==
    /\ aurl \in AcquireURLs
    /\ aworld \in Worlds
    /\ actx \in CtxEnds
    /\ ares = PendingA
    /\ vurl = <<>> /\ vres = PendingV
    /\ LimiterIdle /\ HandlersIdle /\ UnitIdle /\ ServeIdle

AcquireCall ==
    /\ ~ares.done
    /\ ares' = [done |-> TRUE, dl |-> DownloadImage(actx, aurl, aworld)]
    /\ UNCHANGED <<limiterVars, urlVars, aurl, aworld, actx, handlerVars, unitVars, serveVars>>

NextAcquire == AcquireCall

SpecAcquire == InitAcquire /\ [][NextAcquire]_vars

----------------------------------------------------------------------------
(* SpecBody: one call of DownloadImage against responses that declare the  *)
(* length of the body they send, declare less than they send, or declare   *)
(* none (chunked transfer)                                                 *)

BodySizes == {1024, MaxImageSize, MaxImageSize + 1}

\* <<content length, bytes sent>>
Transfers ==
    { <<n, n>> : n \in BodySizes } \cup { <<n, n + 1>> : n \in BodySizes }
        \cup { <<-1, n>> : n \in BodySizes }

BodyWorlds ==
    { [OkWorld EXCEPT !.contentType = ct, !.contentLength = t[1],
                      !.body = [OkBody EXCEPT !.bytes = t[2], !.w = w]] :
        ct \in ContentTypes, t \in Transfers, w \in Widths }

InitBody ==
    /\ aurl \in AcquireURLs
    /\ aworld \in BodyWorlds
    /\ actx \in CtxEnds
    /\ ares = PendingA
    /\ vurl = <<>> /\ vres = PendingV
    /\ LimiterIdle /\ HandlersIdle /\ UnitIdle /\ ServeIdle

SpecBody == InitBody /\ [][NextAcquire]_vars

----------------------------------------------------------------------------
(* FaceDetector: DetectFaces and ValidateSelfie                            *)
(* The classifier handle is what NewFaceDetector unpacks once. What        *)
(* RunCascade followed by ClusterDetections returns for an image is the    *)
(* library's; the handle holds it here per image content.                  *)

MinConfidence == 12
LowConfidence == 10

\* Go's integer division truncates toward zero
TruncDiv(a, b) == IF a >= 0 THEN a \div b ELSE -((-a) \div b)

Max(a, b) == IF a >= b THEN a ELSE b

\* a plausible slip: a score equal to MinConfidence is dropped
FacesOfStrict(detections) ==
    LET filteredDetections == SelectSeq(detections, LAMBDA det : det.Q > MinConfidence)
    IN  [i \in DOMAIN filteredDetections |->
            LET det == filteredDetections[i]
            IN  [X |-> det.Col - TruncDiv(det.Scale, 2),
                 Y |-> det.Row - TruncDiv(det.Scale, 2),
                 Width |-> det.Scale, Height |-> det.Scale,
                 Confidence |-> det.Q]]

\* a plausible slip: half the scale is rounded up
FacesOfRoundUp(detections) ==
    LET filteredDetections == SelectSeq(detections, LAMBDA det : det.Q >= MinConfidence)
    IN  [i \in DOMAIN filteredDetections |->
            LET det == filteredDetections[i]
            IN  [X |-> det.Col - TruncDiv(det.Scale + 1, 2),
                 Y |-> det.Row - TruncDiv(det.Scale + 1, 2),
                 Width |-> det.Scale, Height |-> det.Scale,
                 Confidence |-> det.Q]]

\* the faces of DetectFaces for the clustered detections of the image
FacesOf(detections) ==
    LET filteredDetections == SelectSeq(detections, LAMBDA det : det.Q >= MinConfidence)
    IN  [i \in DOMAIN filteredDetections |->
            LET det == filteredDetections[i]
            IN  [X |-> det.Col - TruncDiv(det.Scale, 2),
                 Y |-> det.Row - TruncDiv(det.Scale, 2),
                 Width |-> det.Scale, Height |-> det.Scale,
                 Confidence |-> det.Q]]

\* DetectFaces: [faces, err]; the error is always nil
DetectFaces(handle, img) ==
    [faces |-> FacesOf(handle[img.id]), err |-> FALSE]

RECURSIVE SumConfidence(_)
SumConfidence(faces) ==
    IF faces = <<>> THEN 0
    ELSE faces[1].Confidence + SumConfidence(Tail(faces))

Issue(text, found, expected) == [text |-> text, found |-> found, expected |-> expected]

\* a plausible slip: the excess check is not the else of the shortfall check
ValidateSelfieNoElse(faces, minFaces, maxFaces) ==
    LET faceCount == Len(faces)
        countIssues ==
            IF faceCount < minFaces
            THEN IF faceCount = 0
                 THEN <<Issue("No faces detected in image", 0, 0),
                        Issue("Image may be too dark or blurry", 0, 0)>>
                 ELSE <<Issue("Too few faces detected", faceCount, minFaces)>>
            ELSE <<>>
        excessIssues ==
            IF faceCount > maxFaces
            THEN <<Issue("Multiple faces detected", faceCount, maxFaces)>>
            ELSE <<>>
        countValid == IF faceCount < minFaces THEN FALSE
                      ELSE IF faceCount > maxFaces THEN FALSE
                      ELSE TRUE
        total == SumConfidence(faces)
        low == faceCount > 0 /\ total < LowConfidence * faceCount
        lowIssues == IF low
                     THEN <<Issue("Low confidence score for detected face(s)", 0, 0)>>
                     ELSE <<>>
    IN  [IsValid |-> IF low THEN FALSE ELSE countValid,
         Issues |-> countIssues \o excessIssues \o lowIssues,
         Confidence |-> IF faceCount > 0 THEN [total |-> total, faces |-> faceCount]
                        ELSE [total |-> 0, faces |-> 1],
         FaceCount |-> faceCount]

\* a plausible slip: a mean equal to the threshold counts as low
ValidateSelfieLowAtTen(faces, minFaces, maxFaces) ==
    LET faceCount == Len(faces)
        countIssues ==
            IF faceCount < minFaces
            THEN IF faceCount = 0
                 THEN <<Issue("No faces detected in image", 0, 0),
                        Issue("Image may be too dark or blurry", 0, 0)>>
                 ELSE <<Issue("Too few faces detected", faceCount, minFaces)>>
            ELSE IF faceCount > maxFaces
                 THEN <<Issue("Multiple faces detected", faceCount, maxFaces)>>
                 ELSE <<>>
        countValid == IF faceCount < minFaces THEN FALSE
                      ELSE IF faceCount > maxFaces THEN FALSE
                      ELSE TRUE
        total == SumConfidence(faces)
        low == faceCount > 0 /\ total <= LowConfidence * faceCount
        lowIssues == IF low
                     THEN <<Issue("Low confidence score for detected face(s)", 0, 0)>>
                     ELSE <<>>
    IN  [IsValid |-> IF low THEN FALSE ELSE countValid,
         Issues |-> countIssues \o lowIssues,
         Confidence |-> IF faceCount > 0 THEN [total |-> total, faces |-> faceCount]
                        ELSE [total |-> 0, faces |-> 1],
         FaceCount |-> faceCount]

\* ValidateSelfie; the float32 mean is kept as the fraction total/faces
ValidateSelfie(faces, minFaces, maxFaces) ==
    LET faceCount == Len(faces)
        countIssues ==
            IF faceCount < minFaces
            THEN IF faceCount = 0
                 THEN <<Issue("No faces detected in image", 0, 0),
                        Issue("Image may be too dark or blurry", 0, 0)>>
                 ELSE <<Issue("Too few faces detected", faceCount, minFaces)>>
            ELSE IF faceCount > maxFaces
                 THEN <<Issue("Multiple faces detected", faceCount, maxFaces)>>
                 ELSE <<>>
        countValid == IF faceCount < minFaces THEN FALSE
                      ELSE IF faceCount > maxFaces THEN FALSE
                      ELSE TRUE
        total == SumConfidence(faces)
        low == faceCount > 0 /\ total < LowConfidence * faceCount
        lowIssues == IF low
                     THEN <<Issue("Low confidence score for detected face(s)", 0, 0)>>
                     ELSE <<>>
    IN  [IsValid |-> IF low THEN FALSE ELSE countValid,
         Issues |-> countIssues \o lowIssues,
         Confidence |-> IF faceCount > 0 THEN [total |-> total, faces |-> faceCount]
                        ELSE [total |-> 0, faces |-> 1],
         FaceCount |-> faceCount]

\* a plausible slip: the bounds are defaulted only together
ValidateDefaultsTogether(req) ==
    IF req.MinFaces = 0 /\ req.MaxFaces = 0
    THEN [req EXCEPT !.MinFaces = 1, !.MaxFaces = 1]
    ELSE req

\* ValidateHandler, "Set defaults": a zero (or absent) bound becomes 1
ValidateDefaults(req) ==
    [req EXCEPT !.MinFaces = IF req.MinFaces = 0 THEN 1 ELSE req.MinFaces,
                !.MaxFaces = IF req.MaxFaces = 0 THEN 1 ELSE req.MaxFaces]

----------------------------------------------------------------------------
(* ImageProcessor: ParseColor, drawCircle, setPixelSafe, DrawFaceCircles   *)
(* An annotated buffer is the source image with the set of pixels a circle *)
(* wrote, all in one colour.                                               *)

ParseColor(colorName) ==
    CASE colorName = "red" -> <<255, 0, 0, 255>>
      [] colorName = "green" -> <<0, 255, 0, 255>>
      [] colorName = "blue" -> <<0, 0, 255, 255>>
      [] colorName = "yellow" -> <<255, 255, 0, 255>>
      [] colorName = "white" -> <<255, 255, 255, 255>>
      [] colorName = "black" -> <<0, 0, 0, 255>>
      [] colorName = "orange" -> <<255, 165, 0, 255>>
      [] colorName = "purple" -> <<128, 0, 128, 255>>
      [] colorName = "pink" -> <<255, 192, 203, 255>>
      [] colorName = "cyan" -> <<0, 255, 255, 255>>
      [] OTHER -> <<255, 0, 0, 255>>

\* a plausible slip: the pixel is written wherever it lies
setPixelUnchecked(img, x, y) == {<<x, y>>}

\* setPixelSafe: the pixel written, if any
setPixelSafe(img, x, y) ==
    IF x >= 0 /\ x < img.w /\ y >= 0 /\ y < img.h THEN {<<x, y>>} ELSE {}

\* the loop "for x <= y" of drawCircle: the pixels written from (x, y, d) on
RECURSIVE CircleLoop(_, _, _, _, _, _)
CircleLoop(img, centerX, centerY, x, y, d) ==
    IF x > y THEN {}
    ELSE setPixelSafe(img, centerX + x, centerY + y)
         \cup setPixelSafe(img, centerX - x, centerY + y)
         \cup setPixelSafe(img, centerX + x, centerY - y)
         \cup setPixelSafe(img, centerX - x, centerY - y)
         \cup setPixelSafe(img, centerX + y, centerY + x)
         \cup setPixelSafe(img, centerX - y, centerY + x)
         \cup setPixelSafe(img, centerX + y, centerY - x)
         \cup setPixelSafe(img, centerX - y, centerY - x)
         \cup IF d < 0
              THEN CircleLoop(img, centerX, centerY, x + 1, y, d + 4 * x + 6)
              ELSE CircleLoop(img, centerX, centerY, x + 1, y - 1, d + 4 * (x - y) + 10)

\* a plausible slip: only a negative radius is skipped
drawCircleSkipsNegative(img, centerX, centerY, radius, lineWidth) ==
    UNION { LET r == radius + w - TruncDiv(lineWidth, 2)
            IN  IF r < 0 THEN {}
                ELSE CircleLoop(img, centerX, centerY, 0, r, 3 - 2 * r)
            : w \in 0..(lineWidth - 1) }

\* drawCircle: the pixels written
drawCircle(img, centerX, centerY, radius, lineWidth) ==
    UNION { LET r == radius + w - TruncDiv(lineWidth, 2)
            IN  IF r <= 0 THEN {}
                ELSE CircleLoop(img, centerX, centerY, 0, r, 3 - 2 * r)
            : w \in 0..(lineWidth - 1) }

\* a plausible slip: the circles are drawn into the source buffer
DrawFaceCirclesInPlace(img, faces, opts, encodeFails) ==
    LET painted ==
            UNION { LET face == faces[i]
                    IN  drawCircle(img,
                                   face.X + TruncDiv(face.Width, 2),
                                   face.Y + TruncDiv(face.Height, 2),
                                   TruncDiv(Max(face.Width, face.Height), 2),
                                   opts.LineWidth)
                    : i \in DOMAIN faces }
        drawn == [src |-> img, painted |-> painted, color |-> opts.Color]
    IN  IF encodeFails
        THEN [err |-> TRUE, source |-> drawn,
              image |-> [src |-> NilImage, painted |-> {}, color |-> <<>>]]
        ELSE [err |-> FALSE, source |-> drawn, image |-> drawn]

\* DrawFaceCircles: [err, source, image]; image is the buffer rgba, a copy of
\* img with the pixels the circles wrote, that is encoded; source is img as
\* the call leaves it; jpeg.Encode may fail
DrawFaceCircles(img, faces, opts, encodeFails) ==
    LET painted ==
            UNION { LET face == faces[i]
                    IN  drawCircle(img,
                                   face.X + TruncDiv(face.Width, 2),
                                   face.Y + TruncDiv(face.Height, 2),
                                   TruncDiv(Max(face.Width, face.Height), 2),
                                   opts.LineWidth)
                    : i \in DOMAIN faces }
        blank == [src |-> img, painted |-> {}, color |-> opts.Color]
    IN  IF encodeFails
        THEN [err |-> TRUE, source |-> blank,
              image |-> [src |-> NilImage, painted |-> {}, color |-> <<>>]]
        ELSE [err |-> FALSE, source |-> blank,
              image |-> [src |-> img, painted |-> painted, color |-> opts.Color]]

----------------------------------------------------------------------------
(* The private/loopback policy as the specification words it: a host       *)
(* matches when one of the four names occurs in it at some offset, letter  *)
(* case ignored, or when it starts with one of the three prefixes          *)

SameLetter(a, b) == ToLowerCh(a) = ToLowerCh(b)

OccursIgnoringCase(host, word) ==
    \E off \in 0..(Len(host) - Len(word)) :
        \A k \in DOMAIN word : SameLetter(host[off + k], word[k])

StartsWith(host, prefix) ==
    Len(prefix) <= Len(host) /\ \A k \in DOMAIN prefix : host[k] = prefix[k]

MatchesPolicy(host) ==
    \/ \E word \in {sLocalhost, sLoopback, sAnyAddr, sLoopback6} :
          OccursIgnoringCase(host, word)
    \/ \E prefix \in {sTen, s192168, s172} : StartsWith(host, prefix)

\* C2: validateURL accepts a URL exactly when it parses, its scheme is http
\* or https, its host is non-empty and its host does not match the
\* private/loopback policy; every other URL makes DownloadImage fail with
\* InvalidURL without a fetch.
C2_ValidateURL ==
    vres.done =>
        LET u == Parse(vurl)
            wanted == /\ ~u.err
                      /\ u.Scheme \in {sHTTP, sHTTPS}
                      /\ u.Host # <<>>
                      /\ ~MatchesPolicy(u.Host)
        IN  /\ (vres.verdict = "") <=> wanted
            /\ ~wanted => /\ vres.dl.err = "InvalidURL"
                          /\ vres.dl.fetched = <<>>
                          /\ vres.dl.img = NilImage
            /\ wanted => vres.dl.err # "InvalidURL"

\* a host holding LOCALHOST in another letter case has been refused
C2_Witness ==
    /\ vres.done
    /\ vurl = sHTTPS \o sSchemeSep \o sUser \o sLocalhostUpperSub \o sPath
    /\ vres.verdict = "access to private IP ranges is not allowed"
    /\ vres.dl.err = "InvalidURL"

----------------------------------------------------------------------------
(* Claims about one DownloadImage call (SpecAcquire)                       *)

\* the request of the call got a response: the URL passed validateURL, the
\* context did not end during the fetch and the network did not fail
GotResponse == validateURL(aurl) = "" /\ actx # "fetch" /\ ~aworld.netFail

\* C1: no request the client sends while serving an acquire, the first one
\* or one following a redirect, goes to a host matching the private/loopback
\* policy.
C1_NoPrivateFetch ==
    ares.done =>
        \A i \in DOMAIN ares.dl.fetched : ~MatchesPolicy(ares.dl.fetched[i])

\* C3: a declared content length above MaxImageSize fails with TooLarge
\* before image.Decode is called; a decoded width above MaxWidth or height
\* above MaxHeight fails with TooLarge after it; values equal to the caps
\* are accepted; a TooLarge failure returns no image.
C3_TooLarge ==
    ares.done =>
        LET d == ares.dl
            atLengthCheck == /\ GotResponse
                             /\ aworld.status = StatusOK
                             /\ isValidImageType(aworld.contentType)
            atDimensionCheck == /\ atLengthCheck
                                /\ aworld.contentLength <= MaxImageSize
                                /\ actx # "body"
                                /\ aworld.body.decodable
            tooBig == aworld.body.w > MaxWidth \/ aworld.body.h > MaxHeight
        IN  /\ (atLengthCheck /\ aworld.contentLength > MaxImageSize)
                => (d.err = "TooLarge" /\ ~d.decoded)
            /\ (atDimensionCheck /\ tooBig) => (d.err = "TooLarge" /\ d.decoded)
            /\ (atDimensionCheck /\ ~tooBig)
                => (d.err = "" /\ d.img.w = aworld.body.w /\ d.img.h = aworld.body.h)
            /\ d.err = "TooLarge" => d.img = NilImage

\* a content length, a width and a height equal to their caps were accepted
C3_Witness ==
    /\ ares.done
    /\ aworld.contentLength = MaxImageSize
    /\ aworld.body.w = MaxWidth /\ aworld.body.h = MaxHeight
    /\ ares.dl.err = "" /\ ares.dl.img # NilImage

\* C7 as stated: no response with a 2xx status fails with DownloadFailed.
C7_Every2xxProceeds ==
    (ares.done /\ GotResponse /\ aworld.status \in 200..299)
        => ares.dl.err # "DownloadFailed"

\* C7 as the code has it: the fetch step fails with DownloadFailed exactly
\* when the request fails or the status is not 200; a 200 response proceeds
\* to the content-type check.
C7_Only200Proceeds ==
    (ares.done /\ validateURL(aurl) = "") =>
        /\ (ares.dl.err = "DownloadFailed")
             <=> (aworld.netFail \/ actx = "fetch" \/ aworld.status # 200)
        /\ (GotResponse /\ aworld.status = 200
              /\ ~isValidImageType(aworld.contentType))
             => ares.dl.err = "UnsupportedFormat"

\* a 206 response was refused with DownloadFailed
C7_Witness ==
    /\ ares.done /\ GotResponse
    /\ aworld.status = 206
    /\ ares.dl.err = "DownloadFailed"

----------------------------------------------------------------------------
(* Spec: the handlers DetectHandler, ValidateHandler, DetectVisualHandler  *)
(* serving NumRequests concurrent requests. A handler runs its stages one  *)
(* after the other; pc "download", "detect", "score", "render" is the call *)
(* in progress, and each action below is the return of that call together  *)
(* with everything the handler does up to its next call or its response.   *)
(* Whether jpeg.Encode fails is the environment's choice.                  *)

Init ==
    /\ inp \in [Requests -> DOMAIN Scenarios]
    /\ pc = [r \in Requests |-> "new"]
    /\ ctx = [r \in Requests |-> "live"]
    /\ loc = [r \in Requests |-> NoLocals]
    /\ stages = [r \in Requests |-> <<>>]
    /\ responses = [r \in Requests |-> <<>>]
    /\ classifier = Cascade
    /\ vurl = <<>> /\ vres = PendingV
    /\ aurl = <<>> /\ aworld = NoWorld /\ actx = "none" /\ ares = PendingA
    /\ UnitIdle /\ ServeIdle /\ LimiterIdle

\* a stage is called: its name and whether the context had ended already
CallOf(r, name) == [name |-> name, ctxEnded |-> ctx[r] # "live", result |-> "running"]
Called(r, name) == Append(stages[r], CallOf(r, name))

\* the stage in progress returns
Returned(r, ok) ==
    [stages[r] EXCEPT ![Len(stages[r])].result = IF ok THEN "ok" ELSE "failed"]

\* writeErrorResponse
ErrorResponse(status, code, message) ==
    [status |-> status, code |-> code, body |-> [error |-> message]]

\* w.Header().Set(...); json.NewEncoder(w).Encode(response)
SuccessResponse(body) == [status |-> 200, code |-> "", body |-> body]

\* the handler of request r writes resp and returns
Finish(r, resp, kind) ==
    /\ responses' = [responses EXCEPT ![r] = Append(@, resp)]
    /\ pc' = [pc EXCEPT ![r] = "done"]
    /\ loc' = [loc EXCEPT ![r].err = kind]

\* the client disconnects, or the 30 s of context.WithTimeout pass, while a
\* stage is in progress; during the download the context ends before the
\* response arrives ("fetch") or while the body is read ("body"), during a
\* later stage it ends "late"
Cancel(r) ==
    /\ pc[r] \in {"download", "detect", "score", "render"}
    /\ ctx[r] = "live"
    /\ \E at \in (IF pc[r] = "download" THEN {"fetch", "body"} ELSE {"late"}) :
          ctx' = [ctx EXCEPT ![r] = at]
    /\ UNCHANGED <<limiterVars, unitVars, serveVars, urlVars, acquireVars, inp, pc, loc, stages, responses, classifier>>

\* the handler up to its call of DownloadImage
Begin(r) ==
    /\ pc[r] = "new"
    /\ IF ~In(r).jsonOK
       THEN /\ Finish(r, ErrorResponse(400, "INVALID_REQUEST", "Invalid JSON request"),
                      "InvalidRequest")
            /\ UNCHANGED stages
       ELSE IF In(r).ImageURL = <<>>
       THEN /\ Finish(r, ErrorResponse(400, "MISSING_IMAGE_URL", "Image URL is required"),
                      "MissingImageURL")
            /\ UNCHANGED stages
       ELSE /\ loc' = [loc EXCEPT
                  ![r].MinFaces = ValidateDefaults(In(r)).MinFaces,
                  ![r].MaxFaces = ValidateDefaults(In(r)).MaxFaces,
                  ![r].CircleColor = IF In(r).CircleColor = "" THEN "red"
                                     ELSE In(r).CircleColor,
                  ![r].LineWidth = IF In(r).LineWidth = 0 THEN 3 ELSE In(r).LineWidth]
            /\ stages' = [stages EXCEPT ![r] = Called(r, "Acquire")]
            /\ pc' = [pc EXCEPT ![r] = "download"]
            /\ UNCHANGED responses
    /\ UNCHANGED <<limiterVars, unitVars, serveVars, urlVars, acquireVars, inp, ctx, classifier>>

\* DownloadImage returns; on success the handler calls DetectFaces
DownloadReturns(r) ==
    /\ pc[r] = "download"
    /\ LET dl == DownloadImage(IF ctx[r] \in {"fetch", "body"} THEN ctx[r] ELSE "none",
                               In(r).ImageURL, In(r).world)
       IN  IF dl.err # ""
           THEN /\ Finish(r, ErrorResponse(400, "IMAGE_DOWNLOAD_FAILED",
                                           "Failed to download image"), dl.err)
                /\ stages' = [stages EXCEPT ![r] = Returned(r, FALSE)]
           ELSE /\ loc' = [loc EXCEPT ![r].img = dl.img, ![r].metadata = dl.meta]
                /\ stages' = [stages EXCEPT
                       ![r] = Append(Returned(r, TRUE), CallOf(r, "Detect"))]
                /\ pc' = [pc EXCEPT ![r] = "detect"]
                /\ UNCHANGED responses
    /\ UNCHANGED <<limiterVars, unitVars, serveVars, urlVars, acquireVars, inp, ctx, classifier>>

\* the response bodies of the three endpoints
DetectionBody(faces, metadata) ==
    [Faces |-> faces, Count |-> Len(faces), ImageMetadata |-> metadata]

VisualBody(image, faces, metadata) ==
    [ImageBase64 |-> image, Faces |-> faces, Count |-> Len(faces),
     ImageMetadata |-> metadata]

\* a plausible slip: the faces are kept in a field of the shared detector
DetectReturnsSharedFaces(r) ==
    /\ pc[r] = "detect"
    /\ LET det == DetectFaces(classifier, loc[r].img)
       IN  /\ loc' = [q \in Requests |-> [loc[q] EXCEPT !.faces = det.faces]]
           /\ IF In(r).endpoint = "detect"
              THEN /\ responses' = [responses EXCEPT ![r] =
                          Append(@, SuccessResponse(DetectionBody(det.faces,
                                                                  loc[r].metadata)))]
                   /\ pc' = [pc EXCEPT ![r] = "done"]
                   /\ stages' = [stages EXCEPT ![r] = Returned(r, TRUE)]
              ELSE LET next == IF In(r).endpoint = "validate" THEN "Score" ELSE "Render"
                   IN  /\ stages' = [stages EXCEPT
                              ![r] = Append(Returned(r, TRUE), CallOf(r, next))]
                       /\ pc' = [pc EXCEPT ![r] =
                              IF next = "Score" THEN "score" ELSE "render"]
                       /\ UNCHANGED responses
    /\ UNCHANGED <<limiterVars, unitVars, serveVars, urlVars, acquireVars, inp, ctx, classifier>>

\* DetectFaces returns; /detect answers, /validate calls ValidateSelfie,
\* /detect-visual calls DrawFaceCircles
DetectReturns(r) ==
    /\ pc[r] = "detect"
    /\ LET det == DetectFaces(classifier, loc[r].img)
       IN  IF det.err
           THEN /\ Finish(r, ErrorResponse(500, "FACE_DETECTION_FAILED",
                                           "Face detection failed"), "DetectionFailed")
                /\ stages' = [stages EXCEPT ![r] = Returned(r, FALSE)]
           ELSE IF In(r).endpoint = "detect"
           THEN /\ responses' = [responses EXCEPT ![r] =
                       Append(@, SuccessResponse(DetectionBody(det.faces,
                                                               loc[r].metadata)))]
                /\ loc' = [loc EXCEPT ![r].faces = det.faces]
                /\ pc' = [pc EXCEPT ![r] = "done"]
                /\ stages' = [stages EXCEPT ![r] = Returned(r, TRUE)]
           ELSE LET next == IF In(r).endpoint = "validate" THEN "Score" ELSE "Render"
                IN  /\ loc' = [loc EXCEPT ![r].faces = det.faces]
                    /\ stages' = [stages EXCEPT
                           ![r] = Append(Returned(r, TRUE), CallOf(r, next))]
                    /\ pc' = [pc EXCEPT ![r] = IF next = "Score" THEN "score" ELSE "render"]
                    /\ UNCHANGED responses
    /\ UNCHANGED <<limiterVars, unitVars, serveVars, urlVars, acquireVars, inp, ctx, classifier>>

\* ValidateSelfie returns and ValidateHandler answers
ScoreReturns(r) ==
    /\ pc[r] = "score"
    /\ responses' = [responses EXCEPT ![r] =
           Append(@, SuccessResponse(ValidateSelfie(loc[r].faces, loc[r].MinFaces,
                                                    loc[r].MaxFaces)))]
    /\ pc' = [pc EXCEPT ![r] = "done"]
    /\ stages' = [stages EXCEPT ![r] = Returned(r, TRUE)]
    /\ UNCHANGED <<limiterVars, unitVars, serveVars, urlVars, acquireVars, inp, ctx, loc, classifier>>

CircleOpts(r) ==
    [Color |-> ParseColor(loc[r].CircleColor), LineWidth |-> loc[r].LineWidth]

\* a plausible slip: no return after the error response
RenderReturnsFallsThrough(r) ==
    /\ pc[r] = "render"
    /\ \E encodeFails \in BOOLEAN :
       LET drawn == DrawFaceCircles(loc[r].img, loc[r].faces, CircleOpts(r),
                                    encodeFails)
           ok == SuccessResponse(VisualBody(drawn.image, loc[r].faces, loc[r].metadata))
       IN  /\ responses' = [responses EXCEPT ![r] =
                  IF drawn.err
                  THEN @ \o <<ErrorResponse(500, "IMAGE_PROCESSING_FAILED",
                                            "Failed to process image"), ok>>
                  ELSE Append(@, ok)]
           /\ loc' = [loc EXCEPT ![r].err = IF drawn.err THEN "RenderFailed" ELSE ""]
           /\ pc' = [pc EXCEPT ![r] = "done"]
           /\ stages' = [stages EXCEPT ![r] = Returned(r, ~drawn.err)]
    /\ UNCHANGED <<limiterVars, unitVars, serveVars, urlVars, acquireVars, inp, ctx, classifier>>

\* DrawFaceCircles returns and DetectVisualHandler answers
RenderReturns(r) ==
    /\ pc[r] = "render"
    /\ \E encodeFails \in BOOLEAN :
       LET drawn == DrawFaceCircles(loc[r].img, loc[r].faces, CircleOpts(r),
                                    encodeFails)
       IN  IF drawn.err
           THEN /\ Finish(r, ErrorResponse(500, "IMAGE_PROCESSING_FAILED",
                                           "Failed to process image"), "RenderFailed")
                /\ stages' = [stages EXCEPT ![r] = Returned(r, FALSE)]
           ELSE /\ responses' = [responses EXCEPT ![r] =
                       Append(@, SuccessResponse(VisualBody(drawn.image, loc[r].faces,
                                                            loc[r].metadata)))]
                /\ pc' = [pc EXCEPT ![r] = "done"]
                /\ stages' = [stages EXCEPT ![r] = Returned(r, TRUE)]
                /\ UNCHANGED loc
    /\ UNCHANGED <<limiterVars, unitVars, serveVars, urlVars, acquireVars, inp, ctx, classifier>>

Next ==
    \E r \in Requests :
        \/ Begin(r)
        \/ DownloadReturns(r)
        \/ DetectReturns(r)
        \/ ScoreReturns(r)
        \/ RenderReturns(r)
        \/ Cancel(r)

Spec == Init /\ [][Next]_vars

----------------------------------------------------------------------------
(* Claims about the handlers (Spec)                                        *)

\* the stages of an endpoint, in order
Pipeline(endpoint) ==
    <<"Acquire", "Detect">>
        \o (IF endpoint = "validate" THEN <<"Score">>
            ELSE IF endpoint = "detect-visual" THEN <<"Render">>
            ELSE <<>>)

StageNames(r) == [i \in DOMAIN stages[r] |-> stages[r][i].name]

\* C4: the stages Acquire, Detect, (Score | Render) of a request run at most
\* once and in that order, a stage is called only after every earlier one
\* succeeded, and exactly one response is written: a success body only when
\* every stage of the endpoint succeeded, else an error body without results.
C4_LinearPipeline ==
    \A r \in Requests :
        LET full == Pipeline(In(r).endpoint)
            n == Len(stages[r])
        IN  /\ n <= Len(full)
            /\ StageNames(r) = SubSeq(full, 1, n)
            /\ \A i \in 1..(n - 1) : stages[r][i].result = "ok"
            /\ Len(responses[r]) <= 1
            /\ (pc[r] = "done") <=> (Len(responses[r]) = 1)
            /\ pc[r] = "done" =>
                  LET resp == responses[r][1]
                  IN  IF resp.status = 200
                      THEN /\ n = Len(full)
                           /\ \A i \in 1..n : stages[r][i].result = "ok"
                      ELSE /\ DOMAIN resp.body = {"error"}
                           /\ \/ n = 0
                              \/ stages[r][n].result = "failed"

\* a /detect-visual request failed in its third stage and got one error body
C4_Witness ==
    \E r \in Requests :
        /\ pc[r] = "done"
        /\ StageNames(r) = <<"Acquire", "Detect", "Render">>
        /\ stages[r][3].result = "failed"
        /\ Len(responses[r]) = 1
        /\ responses[r][1].status = 500

\* C5: once the request context has ended while a stage is in progress, no
\* later stage is called.
C5_AbortOnCancel ==
    \A r \in Requests :
        \A i \in 2..Len(stages[r]) : ~stages[r][i].ctxEnded

TaxonomyKinds == {"InvalidURL", "DownloadFailed", "UnsupportedFormat", "TooLarge",
                  "DecodeFailed", "InvalidRequest", "DetectionFailed", "RenderFailed"}

Failed(r) == pc[r] = "done" /\ loc[r].err \in TaxonomyKinds

\* C6: every kind of failure has its own error code, with status 400 for the
\* acquire kinds and malformed JSON and 500 for detection and render
\* failures; two requests failing for different kinds get different codes.
C6_OneCodePerKind ==
    /\ \A r \in Requests :
          Failed(r) =>
              responses[r][1].status =
                  IF loc[r].err \in {"DetectionFailed", "RenderFailed"} THEN 500 ELSE 400
    /\ \A r1, r2 \in Requests :
          (Failed(r1) /\ Failed(r2) /\ loc[r1].err # loc[r2].err)
              => responses[r1][1].code # responses[r2][1].code

\* the responses request r can get when it runs alone on the image it fetched
AloneResponses(r) ==
    LET faces == FacesOf(Cascade[loc[r].img.id])
        minFaces == IF In(r).MinFaces = 0 THEN 1 ELSE In(r).MinFaces
        maxFaces == IF In(r).MaxFaces = 0 THEN 1 ELSE In(r).MaxFaces
        opts == [Color |-> ParseColor(IF In(r).CircleColor = "" THEN "red"
                                      ELSE In(r).CircleColor),
                 LineWidth |-> IF In(r).LineWidth = 0 THEN 3 ELSE In(r).LineWidth]
    IN  CASE In(r).endpoint = "detect" ->
                {SuccessResponse(DetectionBody(faces, loc[r].metadata))}
          [] In(r).endpoint = "validate" ->
                {SuccessResponse(ValidateSelfie(faces, minFaces, maxFaces))}
          [] OTHER ->
                {SuccessResponse(VisualBody(
                     DrawFaceCircles(loc[r].img, faces, opts, FALSE).image,
                     faces, loc[r].metadata)),
                 ErrorResponse(500, "IMAGE_PROCESSING_FAILED", "Failed to process image")}

\* C8: under every interleaving the response of a request is the one it
\* gives alone on the image it fetched, the faces a handler holds are those
\* of its own image, and the classifier handle is the one loaded at startup.
C8_Isolation ==
    /\ classifier = Cascade
    /\ \A r \in Requests :
          /\ pc[r] \in {"score", "render"}
                => loc[r].faces = FacesOf(Cascade[loc[r].img.id])
          /\ (pc[r] = "done" /\ loc[r].img # NilImage)
                => /\ Len(responses[r]) = 1
                   /\ responses[r][1] \in AloneResponses(r)

\* a /validate and a /detect-visual request on different images both answered
C8_Witness ==
    /\ \A r \in Requests : pc[r] = "done" /\ responses[r][1].status = 200
    /\ In(1).endpoint = "validate" /\ In(2).endpoint = "detect-visual"
    /\ loc[1].img.id # loc[2].img.id
    /\ responses[2][1].body.ImageBase64.painted # {}

----------------------------------------------------------------------------
(* SpecDetect: one call of DetectFaces on an image whose clustered         *)
(* detections are any list of at most MaxDetections detections, and the    *)
(* response bodies the handlers build from its faces                       *)

MaxDetections == 2

DetectionInputs ==
    { [Row |-> p[1], Col |-> p[2], Scale |-> s, Q |-> q] :
        p \in {<<200, 300>>, <<3, 2>>}, s \in {7, 80}, q \in {11, 12, 13, 20} }

DetectionLists ==
    UNION { [1..n -> DetectionInputs] : n \in 0..MaxDetections }

InitDetect ==
    /\ arg \in { [fn |-> "DetectFaces", detections |-> d] : d \in DetectionLists }
    /\ ret = NoCall
    /\ vurl = <<>> /\ vres = PendingV
    /\ aurl = <<>> /\ aworld = NoWorld /\ actx = "none" /\ ares = PendingA
    /\ LimiterIdle /\ HandlersIdle /\ ServeIdle

\* DetectFaces on the image, then the bodies DetectHandler and
\* DetectVisualHandler answer with
DetectCall ==
    /\ ret = NoCall
    /\ LET img == [Body1 EXCEPT !.id = 1]
           det == DetectFaces([id \in {1} |-> arg.detections], img)
       IN  ret' = [fn |-> "DetectFaces", faces |-> det.faces, err |-> det.err,
                   detect |-> DetectionBody(det.faces, NilMetadata),
                   visual |-> VisualBody(NilImage, det.faces, NilMetadata)]
    /\ UNCHANGED <<limiterVars, arg, serveVars, urlVars, acquireVars, handlerVars>>

NextDetect == DetectCall

SpecDetect == InitDetect /\ [][NextDetect]_vars

\* the positions of the detections that pass the filter, and the k-th of them
PassingAt(detections) == { i \in DOMAIN detections : detections[i].Q >= MinConfidence }
KthPassing(detections, k) ==
    CHOOSE i \in PassingAt(detections) :
        Cardinality({ j \in PassingAt(detections) : j <= i }) = k

\* C11: DetectFaces keeps exactly the detections whose score is at least
\* MinConfidence, in their order (a score equal to MinConfidence is kept, a
\* lower one dropped), and returns no error, also when nothing is kept
C11_ConfidenceFilter ==
    ret.fn = "DetectFaces" =>
        /\ ~ret.err
        /\ Len(ret.faces) = Cardinality(PassingAt(arg.detections))
        /\ \A k \in DOMAIN ret.faces :
              LET det == arg.detections[KthPassing(arg.detections, k)]
              IN  /\ ret.faces[k].Confidence = det.Q
                  /\ ret.faces[k].Width = det.Scale
                  /\ det.Col - ret.faces[k].X \in {det.Scale \div 2}
                  /\ det.Row - ret.faces[k].Y \in {det.Scale \div 2}

\* a score equal to MinConfidence kept, a lower one before it dropped
C11_Witness ==
    /\ ret.fn = "DetectFaces"
    /\ Len(arg.detections) = 2
    /\ arg.detections[1].Q = MinConfidence - 1
    /\ arg.detections[2].Q = MinConfidence
    /\ Len(ret.faces) = 1
    /\ ret.faces[1].Confidence = MinConfidence

\* C12: every face has width = height = scale, x = col - scale/2 and
\* y = row - scale/2 with the half truncated, and confidence = score; the
\* single detection {row 200, col 300, scale 80, score 20} gives /detect the
\* faces [{x 260, y 160, width 80, height 80, confidence 20}] and count 1; the
\* count of a /detect and of a /detect-visual body is the length of its faces
C12_FaceMapping ==
    ret.fn = "DetectFaces" =>
        /\ \A k \in DOMAIN ret.faces :
              LET det == arg.detections[KthPassing(arg.detections, k)]
                  face == ret.faces[k]
              IN  /\ face.Width = det.Scale /\ face.Height = det.Scale
                  /\ face.Confidence = det.Q
                  /\ 2 * (det.Col - face.X) <= det.Scale
                  /\ det.Scale < 2 * (det.Col - face.X) + 2
                  /\ 2 * (det.Row - face.Y) <= det.Scale
                  /\ det.Scale < 2 * (det.Row - face.Y) + 2
        /\ arg.detections = <<[Row |-> 200, Col |-> 300, Scale |-> 80, Q |-> 20]>>
              => /\ ret.detect.Faces = <<[X |-> 260, Y |-> 160, Width |-> 80,
                                          Height |-> 80, Confidence |-> 20]>>
                 /\ ret.detect.Count = 1
        /\ ret.detect.Count = Len(ret.detect.Faces)
        /\ ret.visual.Count = Len(ret.visual.Faces)
        /\ ret.detect.Faces = ret.faces /\ ret.visual.Faces = ret.faces

\* a face of odd scale, whose half is truncated
C12_Witness ==
    /\ ret.fn = "DetectFaces"
    /\ Len(ret.faces) = 2
    /\ ret.faces[1] = [X |-> 260, Y |-> 160, Width |-> 80, Height |-> 80,
                       Confidence |-> 20]
    /\ ret.faces[2] = [X |-> -1, Y |-> 0, Width |-> 7, Height |-> 7,
                       Confidence |-> 12]
    /\ ret.detect.Count = 2

----------------------------------------------------------------------------
(* SpecScore: ValidateHandler from "Set defaults" to ValidateSelfie, for   *)
(* any min_faces and max_faces of the request and any list of at most      *)
(* MaxFaceList faces, and ValidateSelfie called with the bounds as given   *)

MaxFaceList == 2

FaceBounds == {-1, 0, 1, 2, 3}
Confidences == {5, 9, 10, 11, 15}

FaceOf(c) == [X |-> 0, Y |-> 0, Width |-> 20, Height |-> 20, Confidence |-> c]

FaceLists ==
    UNION { [1..n -> { FaceOf(c) : c \in Confidences }] : n \in 0..MaxFaceList }

InitScore ==
    /\ arg \in { [fn |-> "ValidateSelfie", MinFaces |-> lo, MaxFaces |-> hi, faces |-> f] :
                    lo \in FaceBounds, hi \in FaceBounds, f \in FaceLists }
    /\ ret = NoCall
    /\ vurl = <<>> /\ vres = PendingV
    /\ aurl = <<>> /\ aworld = NoWorld /\ actx = "none" /\ ares = PendingA
    /\ LimiterIdle /\ HandlersIdle /\ ServeIdle

ScoreCall ==
    /\ ret = NoCall
    /\ LET req == ValidateDefaults(arg)
       IN  ret' = [fn |-> "ValidateSelfie",
                   MinFaces |-> req.MinFaces, MaxFaces |-> req.MaxFaces,
                   response |-> ValidateSelfie(arg.faces, req.MinFaces, req.MaxFaces),
                   direct |-> ValidateSelfie(arg.faces, arg.MinFaces, arg.MaxFaces)]
    /\ UNCHANGED <<limiterVars, arg, serveVars, urlVars, acquireVars, handlerVars>>

NextScore == ScoreCall

SpecScore == InitScore /\ [][NextScore]_vars

sLow == "Low confidence score for detected face(s)"
CountIssues(result) == SelectSeq(result.Issues, LAMBDA issue : issue.text # sLow)
LowIssues(result) == SelectSeq(result.Issues, LAMBDA issue : issue.text = sLow)

\* what the count check must do for n faces and the bounds lo and hi
CountCheckOK(result, n, lo, hi) ==
    /\ result.FaceCount = n
    /\ (n < lo /\ n = 0) =>
          /\ ~result.IsValid
          /\ Len(CountIssues(result)) = 2
          /\ CountIssues(result)[1].text = "No faces detected in image"
          /\ CountIssues(result)[2].text = "Image may be too dark or blurry"
    /\ (n < lo /\ n > 0) =>
          /\ ~result.IsValid
          /\ CountIssues(result) = <<Issue("Too few faces detected", n, lo)>>
    /\ (n >= lo /\ n > hi) =>
          /\ ~result.IsValid
          /\ CountIssues(result) = <<Issue("Multiple faces detected", n, hi)>>
    /\ (lo <= n /\ n <= hi) => CountIssues(result) = <<>>

\* C13: the count check of ValidateSelfie: fewer than minFaces faces make the
\* result invalid with two issues when there is no face and one shortfall
\* issue otherwise; else more than maxFaces faces make it invalid with one
\* excess issue; a count within the bounds adds no issue. No face with
\* min = max = 1 gives two issues, two faces with min = max = 1 one issue
\* "Multiple faces detected".
C13_CountCheck ==
    ret.fn = "ValidateSelfie" =>
        /\ CountCheckOK(ret.direct, Len(arg.faces), arg.MinFaces, arg.MaxFaces)
        /\ CountCheckOK(ret.response, Len(arg.faces), ret.MinFaces, ret.MaxFaces)
        /\ (arg.MinFaces = 1 /\ arg.MaxFaces = 1 /\ arg.faces = <<>>) =>
              (~ret.direct.IsValid /\ Len(ret.direct.Issues) = 2)
        /\ (arg.MinFaces = 1 /\ arg.MaxFaces = 1 /\ Len(arg.faces) = 2) =>
              /\ ~ret.direct.IsValid
              /\ CountIssues(ret.direct) = <<Issue("Multiple faces detected", 2, 1)>>

\* two faces where three are wanted and one allowed: the shortfall issue only
C13_Witness ==
    /\ ret.fn = "ValidateSelfie"
    /\ arg.MinFaces = 3 /\ arg.MaxFaces = 1 /\ Len(arg.faces) = 2
    /\ ~ret.direct.IsValid
    /\ CountIssues(ret.direct) = <<Issue("Too few faces detected", 2, 3)>>

\* the sum of the confidences, from the first face on
Total(faces) ==
    LET upto[i \in 0..Len(faces)] ==
            IF i = 0 THEN 0 ELSE upto[i - 1] + faces[i].Confidence
    IN  upto[Len(faces)]

C15_Defaults ==
    ret.fn = "ValidateSelfie" =>
        /\ arg.MinFaces = 0 => ret.MinFaces = 1
        /\ arg.MaxFaces = 0 => ret.MaxFaces = 1
        /\ arg.MinFaces # 0 => ret.MinFaces = arg.MinFaces
        /\ arg.MaxFaces # 0 => ret.MaxFaces = arg.MaxFaces
        /\ (arg.MinFaces = 0 /\ Len(arg.faces) >= 1 /\ Len(arg.faces) <= ret.MaxFaces) =>
              CountIssues(ret.response) = <<>>
        /\ (arg.MaxFaces = 0 /\ Len(arg.faces) > 1 /\ Len(arg.faces) >= ret.MinFaces) =>
              CountIssues(ret.response) =
                  <<Issue("Multiple faces detected", Len(arg.faces), 1)>>

\* min_faces absent and max_faces 2: two faces are scored against 1 and 2
C15_Witness ==
    /\ ret.fn = "ValidateSelfie"
    /\ arg.MinFaces = 0 /\ arg.MaxFaces = 2 /\ Len(arg.faces) = 2
    /\ ret.MinFaces = 1 /\ ret.MaxFaces = 2
    /\ CountIssues(ret.response) = <<>>

----------------------------------------------------------------------------
(* SpecRender: one call of DrawFaceCircles on a small image, for any list  *)
(* of at most MaxRenderFaces faces (inside, across the border of, and      *)
(* outside the image; of radius 0 and more) and any stroke width           *)

MaxRenderFaces == 2

RenderImage == [OkBody EXCEPT !.w = 6, !.h = 5]

RenderFaces ==
    { [X |-> p[1], Y |-> p[2], Width |-> s, Height |-> s, Confidence |-> 20] :
        p \in {<<2, 2>>, <<5, -3>>, <<-3, 2>>, <<-9, -9>>}, s \in {0, 1, 3, 6} }

RenderFaceLists ==
    UNION { [1..n -> RenderFaces] : n \in 0..MaxRenderFaces }

LineWidths == {-1, 0, 1, 2, 3, 5}

InitRender ==
    /\ arg \in { [fn |-> "DrawFaceCircles", img |-> RenderImage, faces |-> f,
                  CircleColor |-> "blue", LineWidth |-> lw, encodeFails |-> e] :
                    f \in RenderFaceLists, lw \in LineWidths, e \in BOOLEAN }
    /\ ret = NoCall
    /\ vurl = <<>> /\ vres = PendingV
    /\ aurl = <<>> /\ aworld = NoWorld /\ actx = "none" /\ ares = PendingA
    /\ LimiterIdle /\ HandlersIdle /\ ServeIdle

RenderCall ==
    /\ ret = NoCall
    /\ LET opts == [Color |-> ParseColor(arg.CircleColor), LineWidth |-> arg.LineWidth]
           drawn == DrawFaceCircles(arg.img, arg.faces, opts, arg.encodeFails)
       IN  ret' = [fn |-> "DrawFaceCircles", err |-> drawn.err,
                   source |-> drawn.source, image |-> drawn.image]
    /\ UNCHANGED <<limiterVars, arg, serveVars, urlVars, acquireVars, handlerVars>>

NextRender == RenderCall

SpecRender == InitRender /\ [][NextRender]_vars

\* the pixels of an image, and the colour of each pixel of a decoded image
\* and of a buffer
Extent(img) == (0..(img.w - 1)) \X (0..(img.h - 1))
SourcePixel(img, p) == <<(p[1] + 2 * p[2] + img.id) % 256, 0, 0, 255>>
BufferPixel(buffer, p) ==
    IF p \in buffer.painted THEN buffer.color ELSE SourcePixel(buffer.src, p)

\* the radius DrawFaceCircles computes for a face
RadiusOf(face) == Max(face.Width, face.Height) \div 2

\* C16: DrawFaceCircles draws on a copy: when it returns every pixel of the
\* source image is what it was, and every pixel of the copy that no circle
\* wrote is the source's pixel
C16_SourceUntouched ==
    ret.fn = "DrawFaceCircles" =>
        /\ ret.source.src = arg.img
        /\ \A p \in Extent(arg.img) :
              BufferPixel(ret.source, p) = SourcePixel(arg.img, p)
        /\ ~ret.err =>
              /\ ret.image.src = arg.img
              /\ \A p \in Extent(arg.img) \ ret.image.painted :
                    BufferPixel(ret.image, p) = SourcePixel(arg.img, p)

\* a circle was drawn into the copy, and the source pixel under it is intact
C16_Witness ==
    /\ ret.fn = "DrawFaceCircles"
    /\ ~ret.err
    /\ \E p \in Extent(arg.img) :
          /\ p \in ret.image.painted
          /\ BufferPixel(ret.image, p) = <<0, 0, 255, 255>>
          /\ BufferPixel(ret.source, p) = SourcePixel(arg.img, p)
          /\ SourcePixel(arg.img, p) # <<0, 0, 255, 255>>

\* C17: faces whose radius max(width, height)/2 is 0 or less cause no pixel
\* write and no error, whatever the stroke width
C17_NoWriteForEmptyRadius ==
    (/\ ret.fn = "DrawFaceCircles"
     /\ ~arg.encodeFails
     /\ \A i \in DOMAIN arg.faces : RadiusOf(arg.faces[i]) <= 0)
        => (~ret.err /\ ret.image.painted = {})

\* C18: every pixel DrawFaceCircles writes lies inside the image, whatever
\* the position and size of the faces; a write outside is skipped and raises
\* no error; the buffer has the width and height of the source
C18_WritesInBounds ==
    ret.fn = "DrawFaceCircles" =>
        /\ ret.err = arg.encodeFails
        /\ ~ret.err =>
              /\ \A p \in ret.image.painted :
                    /\ 0 <= p[1] /\ p[1] < arg.img.w
                    /\ 0 <= p[2] /\ p[2] < arg.img.h
              /\ ret.image.src.w = arg.img.w
              /\ ret.image.src.h = arg.img.h

\* a circle across the border (centre (8, 0), radius 3) and a face wholly
\* outside: only the part inside the image is written
C18_Witness ==
    /\ ret.fn = "DrawFaceCircles"
    /\ ~ret.err
    /\ arg.LineWidth = 1
    /\ arg.faces = <<[X |-> 5, Y |-> -3, Width |-> 6, Height |-> 6, Confidence |-> 20],
                     [X |-> -9, Y |-> -9, Width |-> 6, Height |-> 6, Confidence |-> 20]>>
    /\ ret.image.painted = {<<5, 0>>, <<5, 1>>}

----------------------------------------------------------------------------
(* SpecServe: the router of main with its middleware, serving NumConns     *)
(* connections. A handler is taken as a whole here: it returns after       *)
(* writing its response, or it panics before it wrote anything (the        *)
(* handlers write as their last statement). spent[key] counts what the     *)
(* token bucket of a client key would have handed out since it was full:   *)
(* a key is exhausted when spent[key] = RateBurst.                         *)

NumConns == 2
MaxServed == 2
RateBurst == 1

Conns == 1..NumConns

\* router.Use(...) of main, outermost first
RouterMiddleware == <<"Logging", "Recovery">>

APIRoutes == {"/api/v1/detect", "/api/v1/validate", "/api/v1/detect-visual"}

\* the request of a connection: the first sends X-Forwarded-For, the others
\* are told apart by their remote address
RequestOf(conn, route) ==
    [route |-> route,
     XForwardedFor |-> IF conn = 1 THEN "10.1.1.1" ELSE "",
     XRealIP |-> "",
     RemoteAddr |-> IF conn = 1 THEN "proxy:1" ELSE "peer:2"]

getClientIP(r) ==
    IF r.XForwardedFor # "" THEN r.XForwardedFor
    ELSE IF r.XRealIP # "" THEN r.XRealIP
    ELSE r.RemoteAddr

ClientKeys == { getClientIP(RequestOf(conn, "/")) : conn \in Conns }

PanicValues == {"runtime error: index out of range"}

Idle == [at |-> "idle"]

InitServe ==
    /\ flight = [conn \in Conns |-> Idle]
    /\ answered = <<>>
    /\ spent = [key \in ClientKeys |-> 0]
    /\ vurl = <<>> /\ vres = PendingV
    /\ aurl = <<>> /\ aworld = NoWorld /\ actx = "none" /\ ares = PendingA
    /\ LimiterIdle /\ HandlersIdle /\ UnitIdle

\* what the client of a request receives
Answer(req, status, code, error, pipeline) ==
    [exhausted |-> req.exhausted, afterPanic |-> req.afterPanic,
     status |-> status, code |-> code, error |-> error, pipeline |-> pipeline]

\* a panic was recovered for an earlier request
Recovered == \E i \in DOMAIN answered : answered[i].code = "INTERNAL_ERROR"

\* RateLimiter.Middleware, where the router uses it: a request of an
\* exhausted key is answered 429 and does not reach the handler
Limited(req) == (\E i \in DOMAIN RouterMiddleware : RouterMiddleware[i] = "RateLimit")
                /\ req.exhausted

\* fewer than MaxServed requests were received so far
Room == Len(answered) + Cardinality({c \in Conns : flight[c] # Idle}) < MaxServed

\* a request arrives and goes through the middleware to its handler
Arrive(conn) ==
    /\ flight[conn] = Idle
    /\ Room
    /\ \E route \in APIRoutes :
          LET r == RequestOf(conn, route)
              key == getClientIP(r)
              req == [at |-> "handler", route |-> route, key |-> key,
                      exhausted |-> spent[key] >= RateBurst,
                      afterPanic |-> Recovered]
          IN  /\ spent' = [spent EXCEPT ![key] = IF @ < RateBurst THEN @ + 1 ELSE @]
              /\ IF Limited(req)
                 THEN /\ answered' = Append(answered,
                              Answer(req, 429, "RATE_LIMIT_EXCEEDED",
                                     "Too many requests", FALSE))
                      /\ UNCHANGED flight
                 ELSE /\ flight' = [flight EXCEPT ![conn] = req]
                      /\ UNCHANGED answered
    /\ UNCHANGED <<limiterVars, unitVars, urlVars, acquireVars, handlerVars>>

\* the handler writes its response and returns
HandlerReturns(conn) ==
    /\ flight[conn] # Idle
    /\ \E out \in { <<200, "", "">>,
                    <<400, "IMAGE_DOWNLOAD_FAILED", "Failed to download image">> } :
          answered' = Append(answered,
                             Answer(flight[conn], out[1], out[2], out[3], TRUE))
    /\ flight' = [flight EXCEPT ![conn] = Idle]
    /\ UNCHANGED <<limiterVars, spent, unitVars, urlVars, acquireVars, handlerVars>>

\* a plausible slip: the panic value is sent to the client
RecoveryEchoesPanic(req, value) ==
    IF \E i \in DOMAIN RouterMiddleware : RouterMiddleware[i] = "Recovery"
    THEN Answer(req, 500, "INTERNAL_ERROR", value, TRUE)
    ELSE Answer(req, 0, "", "", TRUE)

\* RecoveryMiddleware on a panic with the given value; without it net/http
\* closes the connection and the client receives no response (status 0)
Recovery(req, value) ==
    IF \E i \in DOMAIN RouterMiddleware : RouterMiddleware[i] = "Recovery"
    THEN Answer(req, 500, "INTERNAL_ERROR", "Internal server error", TRUE)
    ELSE Answer(req, 0, "", "", TRUE)

\* the handler panics
HandlerPanics(conn) ==
    /\ flight[conn] # Idle
    /\ \E value \in PanicValues :
          answered' = Append(answered, Recovery(flight[conn], value))
    /\ flight' = [flight EXCEPT ![conn] = Idle]
    /\ UNCHANGED <<limiterVars, spent, unitVars, urlVars, acquireVars, handlerVars>>

\* time passes and the bucket of a key regains a token
Refill(key) ==
    /\ spent[key] > 0
    /\ spent' = [spent EXCEPT ![key] = @ - 1]
    /\ UNCHANGED <<limiterVars, flight, answered, unitVars, urlVars, acquireVars, handlerVars>>

NextServe ==
    \/ \E conn \in Conns : Arrive(conn) \/ HandlerReturns(conn) \/ HandlerPanics(conn)
    \/ \E key \in ClientKeys : Refill(key)

SpecServe == InitServe /\ [][NextServe]_vars

\* C19: a request to /api/v1/detect, /api/v1/validate or
\* /api/v1/detect-visual of a client key whose token bucket is exhausted is
\* answered 429 and no pipeline is started for it
C19_RateLimited ==
    /\ \A i \in DOMAIN answered :
          answered[i].exhausted =>
              (answered[i].status = 429 /\ ~answered[i].pipeline)
    /\ \A conn \in Conns : flight[conn] # Idle => ~flight[conn].exhausted

\* C20: a panic raised while a request is handled is answered 500 with code
\* INTERNAL_ERROR and a fixed message that is neither the panic value nor a
\* stack trace, and later requests are served
C20_PanicRecovered ==
    /\ \A i \in DOMAIN answered :
          LET a == answered[i]
          IN  /\ a.status # 0
              /\ (a.status = 500 /\ a.code = "INTERNAL_ERROR") =>
                    a.error = "Internal server error" /\ a.error \notin PanicValues
    /\ \A conn \in Conns :
          (Recovered /\ flight[conn] = Idle /\ Room) => ENABLED Arrive(conn)

\* a request that arrived after a recovered panic is answered 200
C20_Witness ==
    \E i, j \in DOMAIN answered :
        /\ i < j
        /\ answered[i].status = 500 /\ answered[i].code = "INTERNAL_ERROR"
        /\ answered[j].afterPanic /\ answered[j].status = 200

----------------------------------------------------------------------------
(* The stroke of a face, stated from the midpoint circle algorithm: the    *)
(* first octant of the outline of radius r as a table of its steps, then   *)
(* its eight reflections about the centre                                  *)

Octant(r) ==
    LET step[k \in 0..r] ==
            IF k = 0 THEN <<0, r, 3 - 2 * r>>
            ELSE LET x == step[k - 1][1]
                     y == step[k - 1][2]
                     d == step[k - 1][3]
                 IN  IF d < 0 THEN <<x + 1, y, d + 4 * x + 6>>
                     ELSE <<x + 1, y - 1, d + 4 * (x - y) + 10>>
    IN  { <<step[k][1], step[k][2]>> : k \in { j \in 0..r : step[j][1] <= step[j][2] } }

Outline(centerX, centerY, r) ==
    UNION { { <<centerX + sx * q[1], centerY + sy * q[2]>>,
              <<centerX + sx * q[2], centerY + sy * q[1]>> } :
            sx \in {-1, 1}, sy \in {-1, 1}, q \in Octant(r) }

\* the radii of the stroke of width w about the radius R
StrokeRadii(R, w) ==
    { r \in { R + i - (w \div 2) : i \in 0..(w - 1) } : r > 0 }

StrokeOf(face, w) ==
    UNION { Outline(face.X + face.Width \div 2, face.Y + face.Height \div 2, r) :
            r \in StrokeRadii(RadiusOf(face), w) }

\* C21: for a face of radius R and a stroke width w the renderer draws the
\* circle outlines of the radii R + i - w/2, i in [0, w), that are greater
\* than 0, and no other; nothing for w <= 0. Every pixel of an outline of
\* radius r lies within one pixel of the circle of radius r.
C21_Stroke ==
    (ret.fn = "DrawFaceCircles" /\ ~ret.err) =>
        /\ ret.image.painted =
              UNION { StrokeOf(arg.faces[i], arg.LineWidth) : i \in DOMAIN arg.faces }
                  \cap Extent(arg.img)
        /\ arg.LineWidth <= 0 => ret.image.painted = {}
        /\ \A i \in DOMAIN arg.faces :
           \A r \in StrokeRadii(RadiusOf(arg.faces[i]), arg.LineWidth) :
           \A q \in Outline(0, 0, r) :
              /\ (r - 1) * (r - 1) < q[1] * q[1] + q[2] * q[2]
              /\ q[1] * q[1] + q[2] * q[2] < (r + 1) * (r + 1)

\* a face of radius 1 at (2, 2) with stroke width 3: the offsets give the
\* radii 0, 1, 2; the outlines of 1 and 2 are drawn, the centre is not
C21_Witness ==
    /\ ret.fn = "DrawFaceCircles" /\ ~ret.err
    /\ arg.LineWidth = 3
    /\ arg.faces = <<[X |-> 2, Y |-> 2, Width |-> 3, Height |-> 3, Confidence |-> 20]>>
    /\ <<3, 3>> \notin ret.image.painted
    /\ {<<3, 2>>, <<3, 4>>, <<2, 3>>, <<4, 3>>, <<3, 1>>, <<1, 3>>, <<5, 3>>}
          \subseteq ret.image.painted

----------------------------------------------------------------------------
(* SpecLimiter: NumProcs goroutines run RateLimiter.Middleware at the same *)
(* time, one statement of getLimiter per step: rl.mu.Lock(), the map       *)
(* lookup, rate.NewLimiter and the map store, the deferred rl.mu.Unlock(), *)
(* and then limiter.Allow()                                                *)

NumProcs == 3
Procs == 1..NumProcs

\* the requests of the goroutines: two name the same client in different
\* headers, one has no forwarding header
LimiterRequests ==
    { RequestOf(1, "/api/v1/detect"),
      [RequestOf(2, "/api/v1/detect") EXCEPT !.XRealIP = "10.1.1.1"],
      RequestOf(2, "/api/v1/validate") }

LimiterKeys == { getClientIP(r) : r \in LimiterRequests }

InitLimiter ==
    /\ mu = {}
    /\ limiters = [key \in LimiterKeys |-> 0]
    /\ made = <<>>
    /\ proc \in [Procs -> { [pc |-> "start", key |-> getClientIP(r), limiter |-> 0,
                             exists |-> FALSE, out |-> ""] : r \in LimiterRequests }]
    /\ vurl = <<>> /\ vres = PendingV
    /\ aurl = <<>> /\ aworld = NoWorld /\ actx = "none" /\ ares = PendingA
    /\ HandlersIdle /\ UnitIdle /\ ServeIdle

\* a plausible slip: the lock is taken shared, as rl.mu.RLock()
LockShared(p) ==
    /\ proc[p].pc = "start"
    /\ mu' = mu \cup {p}
    /\ proc' = [proc EXCEPT ![p].pc = "locked"]
    /\ UNCHANGED <<limiters, made, unitVars, serveVars, urlVars, acquireVars, handlerVars>>

\* key := getClientIP(r); rl.mu.Lock()
Lock(p) ==
    /\ proc[p].pc = "start"
    /\ mu = {}
    /\ mu' = {p}
    /\ proc' = [proc EXCEPT ![p].pc = "locked"]
    /\ UNCHANGED <<limiters, made, unitVars, serveVars, urlVars, acquireVars, handlerVars>>

\* limiter, exists := rl.limiters[key]
Lookup(p) ==
    /\ proc[p].pc = "locked"
    /\ proc' = [proc EXCEPT ![p].limiter = limiters[proc[p].key],
                            ![p].exists = limiters[proc[p].key] # 0,
                            ![p].pc = IF limiters[proc[p].key] # 0
                                      THEN "unlock" ELSE "create"]
    /\ UNCHANGED <<mu, limiters, made, unitVars, serveVars, urlVars, acquireVars,
                   handlerVars>>

\* limiter = rate.NewLimiter(rl.rate, rl.burst); rl.limiters[key] = limiter
Create(p) ==
    /\ proc[p].pc = "create"
    /\ made' = Append(made, [key |-> proc[p].key, tokens |-> RateBurst])
    /\ limiters' = [limiters EXCEPT ![proc[p].key] = Len(made) + 1]
    /\ proc' = [proc EXCEPT ![p].limiter = Len(made) + 1, ![p].pc = "unlock"]
    /\ UNCHANGED <<mu, unitVars, serveVars, urlVars, acquireVars, handlerVars>>

\* return limiter, with the deferred rl.mu.Unlock()
Unlock(p) ==
    /\ proc[p].pc = "unlock"
    /\ mu' = mu \ {p}
    /\ proc' = [proc EXCEPT ![p].pc = "allow"]
    /\ UNCHANGED <<limiters, made, unitVars, serveVars, urlVars, acquireVars, handlerVars>>

\* if !limiter.Allow() { 429 } else next.ServeHTTP(w, r)
Allow(p) ==
    /\ proc[p].pc = "allow"
    /\ LET l == proc[p].limiter
       IN  IF made[l].tokens > 0
           THEN /\ made' = [made EXCEPT ![l].tokens = @ - 1]
                /\ proc' = [proc EXCEPT ![p].pc = "done", ![p].out = "next"]
           ELSE /\ proc' = [proc EXCEPT ![p].pc = "done",
                                        ![p].out = "RATE_LIMIT_EXCEEDED"]
                /\ UNCHANGED made
    /\ UNCHANGED <<mu, limiters, unitVars, serveVars, urlVars, acquireVars, handlerVars>>

NextLimiter ==
    \E p \in Procs :
        \/ Lock(p)
        \/ Lookup(p)
        \/ Create(p)
        \/ Unlock(p)
        \/ Allow(p)

SpecLimiter == InitLimiter /\ [][NextLimiter]_vars

\* C22: under every interleaving at most one limiter is created per client
\* key; every request of a key, concurrent or later, gets that limiter; a
\* registered limiter is never replaced or removed
C22_OneLimiterPerKey ==
    /\ \A key \in LimiterKeys :
          Cardinality({ i \in DOMAIN made : made[i].key = key }) <= 1
    /\ \A i \in DOMAIN made : limiters[made[i].key] = i
    /\ \A key \in LimiterKeys :
          limiters[key] # 0 => limiters[key] \in DOMAIN made
    /\ \A p \in Procs :
          proc[p].pc \in {"allow", "done"} =>
              /\ proc[p].limiter # 0
              /\ proc[p].limiter = limiters[proc[p].key]

\* two goroutines of one client key, named in different headers, ran
\* getLimiter while a third of another key did; one limiter serves both
C22_Witness ==
    /\ \A p \in Procs : proc[p].pc = "done"
    /\ \E p, q \in Procs :
          /\ p # q
          /\ proc[p].key = "10.1.1.1" /\ proc[q].key = "10.1.1.1"
          /\ proc[p].limiter = proc[q].limiter
          /\ proc[p].out = "next" /\ proc[q].out = "RATE_LIMIT_EXCEEDED"
    /\ \E p \in Procs : proc[p].key = "peer:2"
    /\ Len(made) = 2

----------------------------------------------------------------------------
(* The result of ValidateSelfie as a whole, under SpecScore                *)

InBounds(n, lo, hi) == lo <= n /\ n <= hi
MeanAtLeastTen(faces) == Total(faces) >= 10 * Len(faces)

\* C23: the result is valid exactly when it has no issue, which is
\* exactly when minFaces <= faceCount <= maxFaces, faceCount > 0 and the mean
\* confidence is at least 10; there are at most two issues and faceCount is
\* the length of the face list
C23_ValidIffFacesInBounds ==
    ret.fn = "ValidateSelfie" =>
        LET n == Len(arg.faces)
            result == ret.direct
        IN  /\ result.IsValid <=> result.Issues = <<>>
            /\ result.Issues = <<>> <=>
                  (InBounds(n, arg.MinFaces, arg.MaxFaces) /\ n > 0
                   /\ MeanAtLeastTen(arg.faces))
            /\ Len(result.Issues) <= 2
            /\ result.FaceCount = n

----------------------------------------------------------------------------
(* The size of what a successful acquire read, under SpecBody              *)

\* C24: when DownloadImage succeeds, the body it read and decoded is at most
\* MaxImageSize bytes long and the SizeBytes of the metadata is the size of
\* that body, not negative; also when the response declares no content
\* length or one smaller than the body it sends
C24_BodyWithinCap ==
    (ares.done /\ ares.dl.err = "") =>
        /\ ares.dl.read <= MaxImageSize
        /\ ares.dl.meta.SizeBytes >= 0
        /\ ares.dl.meta.SizeBytes = ares.dl.read

====
